---- MODULE Spec2Model ----
(***************************************************************************)
(* Model of site/_collections/events.js: the events collection pipeline    *)
(* (getEvents), its three exported views (pastEvents, currentEvents,       *)
(* eventTags), the session normalizer (processSession), the author         *)
(* resolver (getAuthorData) and the facet extractors (uniqueSpeakers,      *)
(* uniqueTopics, uniqueLocations).                                         *)
(*                                                                         *)
(* A JavaScript call that may throw is modelled by a result record         *)
(* [threw, error, value]: threw = TRUE carries the Error's subject in      *)
(* error and no value; an exception raised inside Array.prototype.map      *)
(* aborts the map at the first element that throws.                        *)
(***************************************************************************)
EXTENDS Integers, Sequences, FiniteSets, TLC

VARIABLES
  collections,  \* the Eleventy collection: every content item, all locales
  now,          \* the evaluation instant read by isPastEvent (new Date())
  pastOut,      \* outcome of the latest pastEvents(collections) call
  curOut,       \* outcome of the latest currentEvents(collections) call
  tagsOut,      \* outcome of the latest eventTags(collections) call
  getOut,       \* outcome of the latest direct getEvents({...}) call
  speakersIn,   \* argument of the latest direct uniqueSpeakers(events) call
  speakersOut   \* outcome of the latest direct uniqueSpeakers(events) call

vars == <<collections, now, pastOut, curOut, tagsOut, getOut, speakersIn, speakersOut>>

----------------------------------------------------------------------------
(* Bounds of the model.                                                    *)

MaxEvents == 2
MaxDate == 2
MaxSpeakers == 3

\* JavaScript's undefined / null (an absent field, an omitted argument).
Null == "undefined"

----------------------------------------------------------------------------
(* Data the module requires.                                               *)

\* ../_data/authorsData.json: the author directory, keyed by handle.
authorsData ==
  [alice |-> [image |-> "image/alice.jpg", twitter |-> "alice_tw", linkedin |-> Null],
   bob   |-> [image |-> Null, twitter |-> Null, linkedin |-> "bob_li"]]

\* ../_data/site.json
defaultAvatarImg == "image/default-avatar.jpg"
chromeImg == "image/chrome.png"

EVENT_PLACEHOLDER == "image/fuiz5I8Iv7bV8YbrK2PKiY3Vask2/5nwgD8ftJ8DREfN1QF7z.png"

SessionImgClass == "flex-shrink-none height-600 width-600 rounded-full gap-right-300"

\* The locales of the site, and the locale i18n falls back to.
Locales == {"en", "es"}
defaultLocale == "en"

\* The localized strings behind i18n: one row per key, one column per locale.
i18nData ==
  [authors |-> [alice |-> [en |-> "Alice", es |-> "Alicia"],
                bob   |-> [en |-> "Bob",   es |-> "Roberto"]],
   events  |-> [multiple_participants |->
                  [en |-> "Multiple participants", es |-> "Varios participantes"]]]

\* Keys handed to i18n: `i18n.authors.${handle}.title` and
\* 'i18n.events.multiple_participants'.
AuthorTitleKey(authorHandle) == <<"i18n", "authors", authorHandle, "title">>
MultipleParticipantsKey == <<"i18n", "events", "multiple_participants">>

\* ../_filters/i18n: the string of `path` in `locale`; an omitted locale is
\* the default locale.
i18n(path, locale) ==
  LET l == IF locale = Null THEN defaultLocale ELSE locale
  IN  IF path[2] = "authors"
        THEN i18nData.authors[path[3]][l]
        ELSE i18nData.events[path[3]][l]

\* ../_shortcodes/Img: an opaque image descriptor built from its arguments.
Img(args) == [tag |-> "img", args |-> args]

\* The order String.prototype.localeCompare puts the model's strings in.
Collation ==
  <<"Alice", "Alicia", "Berlin", "Bob", "css", "Multiple participants",
    "Roberto", "Tokyo", "Varios participantes", "web">>

Rank(s) == CHOOSE i \in 1..Len(Collation) : Collation[i] = s

localeCompare(a, b) ==
  IF Rank(a) < Rank(b) THEN -1 ELSE IF Rank(a) > Rank(b) THEN 1 ELSE 0

\* ../_js/utils/events: an event is past when its date is at or before the
\* evaluation instant.
isPastEvent(event, instant) == event.data.date <= instant

\* ../_js/utils/events: comparators over normalized events, by date.
sortAsc(a, b) == IF a.date < b.date THEN -1 ELSE IF a.date > b.date THEN 1 ELSE 0
sortDesc(a, b) == IF a.date > b.date THEN -1 ELSE IF a.date < b.date THEN 1 ELSE 0

----------------------------------------------------------------------------
(* Array helpers.                                                          *)

\* The comparator functions the module hands to Array.prototype.sort.
Compare(cmp, a, b) ==
  CASE cmp = "sortAsc"  -> sortAsc(a, b)
    [] cmp = "sortDesc" -> sortDesc(a, b)
    [] cmp = "byTitle"  -> localeCompare(a.title, b.title)
    [] cmp = "byValue"  -> localeCompare(a, b)

\* Array.prototype.sort(cmp): a stable sort (insertion from the left, a new
\* element going after the elements that do not compare greater).
RECURSIVE InsertSorted(_, _, _)
InsertSorted(x, s, cmp) ==
  IF s = <<>> THEN <<x>>
  ELSE IF Compare(cmp, s[Len(s)], x) <= 0 THEN Append(s, x)
  ELSE Append(InsertSorted(x, SubSeq(s, 1, Len(s) - 1), cmp), s[Len(s)])

RECURSIVE ArraySort(_, _)
ArraySort(s, cmp) ==
  IF s = <<>> THEN <<>>
  ELSE InsertSorted(s[Len(s)], ArraySort(SubSeq(s, 1, Len(s) - 1), cmp), cmp)

\* Array.prototype.flat(): concatenation of a sequence of sequences.
RECURSIVE Flat(_)
Flat(ss) == IF ss = <<>> THEN <<>> ELSE Head(ss) \o Flat(Tail(ss))

\* [...new Set(s)]: the distinct elements in order of first insertion.
SetSpread(s) ==
  LET keep == {i \in 1..Len(s) : \A j \in 1..(i - 1) : s[j] # s[i]}
      RECURSIVE Pick(_)
      Pick(i) == IF i > Len(s) THEN <<>>
                 ELSE (IF i \in keep THEN <<s[i]>> ELSE <<>>) \o Pick(i + 1)
  IN  Pick(1)

----------------------------------------------------------------------------
(* Results of calls that may throw.                                        *)

Return(v) == [threw |-> FALSE, error |-> Null, value |-> v]
Throw(e) == [threw |-> TRUE, error |-> e, value |-> Null]

\* The outcome of s.map(f) given the outcomes of f on each element: the
\* first exception, if any, else the array of values.
MapOutcome(rs) ==
  IF \E i \in 1..Len(rs) : rs[i].threw
    THEN Throw(rs[CHOOSE i \in 1..Len(rs) :
                    rs[i].threw /\ \A j \in 1..(i - 1) : ~rs[j].threw].error)
    ELSE Return([i \in 1..Len(rs) |-> rs[i].value])

----------------------------------------------------------------------------
(* The module's functions.                                                 *)

getAuthorData(authorHandle, locale) ==
  IF authorHandle \notin DOMAIN authorsData
    THEN Throw(<<"Invalid author", authorHandle>>)
    ELSE LET authorData == authorsData[authorHandle]
         IN  Return(
               [image    |-> IF authorData.image = Null THEN defaultAvatarImg
                             ELSE authorData.image,
                title    |-> i18n(AuthorTitleKey(authorHandle), locale),
                twitter  |-> authorData.twitter,
                linkedin |-> authorData.linkedin,
                handle   |-> authorHandle])

\* processSession that gives a panel its first participant's title whenever
\* it has a participant, and the multiple-participants label only when empty.
processSession_FirstParticipantTitle(session, locale) ==
  IF session.type = "speaker"
    THEN LET speaker == getAuthorData(session.speaker, locale)
         IN  IF speaker.threw THEN speaker
             ELSE Return(
               [title       |-> session.title,
                description |-> session.description,
                type        |-> session.type,
                topics      |-> session.topics,
                slidesUrl   |-> session.slidesUrl,
                videoUrl    |-> session.videoUrl,
                speaker     |-> speaker.value,
                image       |-> Img([src    |-> speaker.value.image,
                                     width  |-> 40,
                                     height |-> 40,
                                     alt    |-> speaker.value.title,
                                     class  |-> SessionImgClass])])
    ELSE LET participants ==
               MapOutcome([i \in 1..Len(session.participants) |->
                             getAuthorData(session.participants[i], locale)])
         IN  IF participants.threw THEN participants
             ELSE LET ps == participants.value
                      title == IF Len(ps) >= 1 THEN ps[1].title
                               ELSE i18n(MultipleParticipantsKey, Null)
                  IN  Return(
                        [title        |-> title,
                         description  |-> session.description,
                         type         |-> session.type,
                         topics       |-> session.topics,
                         slidesUrl    |-> session.slidesUrl,
                         videoUrl     |-> session.videoUrl,
                         participants |-> ps,
                         image        |-> Img([src    |-> IF Len(ps) = 1
                                                           THEN ps[1].image
                                                           ELSE chromeImg,
                                               width  |-> 40,
                                               height |-> 40,
                                               alt    |-> title,
                                               class  |-> SessionImgClass])])

processSession(session, locale) ==
  LET payload ==
        [title       |-> session.title,
         description |-> session.description,
         type        |-> session.type,
         topics      |-> session.topics,
         slidesUrl   |-> session.slidesUrl,
         videoUrl    |-> session.videoUrl]
  IN  IF session.type = "speaker"
        THEN LET speaker == getAuthorData(session.speaker, locale)
             IN  IF speaker.threw THEN speaker
                 ELSE Return(
                   [title       |-> payload.title,
                    description |-> payload.description,
                    type        |-> payload.type,
                    topics      |-> payload.topics,
                    slidesUrl   |-> payload.slidesUrl,
                    videoUrl    |-> payload.videoUrl,
                    speaker     |-> speaker.value,
                    image       |-> Img([src    |-> speaker.value.image,
                                         width  |-> 40,
                                         height |-> 40,
                                         alt    |-> speaker.value.title,
                                         class  |-> SessionImgClass])])
        ELSE LET participants ==
                   MapOutcome([i \in 1..Len(session.participants) |->
                                 getAuthorData(session.participants[i], locale)])
             IN  IF participants.threw THEN participants
                 ELSE LET ps == participants.value
                          title == IF Len(ps) = 1 THEN ps[1].title
                                   ELSE i18n(MultipleParticipantsKey, Null)
                      IN  Return(
                            [title        |-> title,
                             description  |-> payload.description,
                             type         |-> payload.type,
                             topics       |-> payload.topics,
                             slidesUrl    |-> payload.slidesUrl,
                             videoUrl     |-> payload.videoUrl,
                             participants |-> ps,
                             image        |-> Img([src    |-> IF Len(ps) = 1
                                                               THEN ps[1].image
                                                               ELSE chromeImg,
                                                   width  |-> 40,
                                                   height |-> 40,
                                                   alt    |-> title,
                                                   class  |-> SessionImgClass])])

\* collections.getFilteredByGlob(`./site/${locale}/meet-the-team/events/**/*.md`)
getFilteredByGlob(items, locale) ==
  SelectSeq(items, LAMBDA item : item.locale = locale)

\* The filter functions the module hands to getEvents (null: no filter).
Retains(filter, event, instant) ==
  CASE filter = Null      -> TRUE
    [] filter = "past"    -> isPastEvent(event, instant)
    [] filter = "notPast" -> isPastEvent(event, instant) = FALSE

\* normalizeEvent that collects the normalized sessions in reverse order.
normalizeEvent_ReversedSessions(event, locale, instant) ==
  LET n == Len(event.data.sessions)
      sessions == MapOutcome([i \in 1..n |->
                                processSession(event.data.sessions[n + 1 - i], locale)])
  IN  IF sessions.threw THEN sessions
      ELSE Return(
             [id          |-> event.data.id,
              title       |-> event.data.title,
              externalUrl |-> event.data.externalUrl,
              summary     |-> event.data.summary,
              location    |-> event.data.location,
              date        |-> event.data.date,
              isPastEvent |-> isPastEvent(event, instant),
              sessions    |-> sessions.value,
              image       |-> Img([src    |-> IF event.data.image = Null
                                               THEN EVENT_PLACEHOLDER
                                               ELSE event.data.image,
                                   width  |-> 400,
                                   height |-> 400,
                                   alt    |-> event.data.title])])

\* normalizeEvent that drops a session whose normalization throws.
normalizeEvent_SkipFailed(event, locale, instant) ==
  LET all == [i \in 1..Len(event.data.sessions) |->
                processSession(event.data.sessions[i], locale)]
      ok == SelectSeq(all, LAMBDA r : ~r.threw)
  IN  Return(
        [id          |-> event.data.id,
         title       |-> event.data.title,
         externalUrl |-> event.data.externalUrl,
         summary     |-> event.data.summary,
         location    |-> event.data.location,
         date        |-> event.data.date,
         isPastEvent |-> isPastEvent(event, instant),
         sessions    |-> [i \in 1..Len(ok) |-> ok[i].value],
         image       |-> Img([src    |-> IF event.data.image = Null
                                          THEN EVENT_PLACEHOLDER
                                          ELSE event.data.image,
                              width  |-> 400,
                              height |-> 400,
                              alt    |-> event.data.title])])

\* The body of payload.map(event => ...) in getEvents.
normalizeEvent(event, locale, instant) ==
  LET sessions == MapOutcome([i \in 1..Len(event.data.sessions) |->
                                processSession(event.data.sessions[i], locale)])
  IN  IF sessions.threw THEN sessions
      ELSE Return(
             [id          |-> event.data.id,
              title       |-> event.data.title,
              externalUrl |-> event.data.externalUrl,
              summary     |-> event.data.summary,
              location    |-> event.data.location,
              date        |-> event.data.date,
              isPastEvent |-> isPastEvent(event, instant),
              sessions    |-> sessions.value,
              image       |-> Img([src    |-> IF event.data.image = Null
                                               THEN EVENT_PLACEHOLDER
                                               ELSE event.data.image,
                                   width  |-> 400,
                                   height |-> 400,
                                   alt    |-> event.data.title])])

\* getEvents that leaves out an event whose normalization throws.
getEvents_SkipFailed(items, filter, sort, locale, instant) ==
  LET globbed == getFilteredByGlob(items, locale)
      payload == SelectSeq(globbed, LAMBDA event : Retains(filter, event, instant))
      all == [i \in 1..Len(payload) |-> normalizeEvent(payload[i], locale, instant)]
      ok == SelectSeq(all, LAMBDA r : ~r.threw)
      mapped == [i \in 1..Len(ok) |-> ok[i].value]
  IN  IF sort # Null THEN Return(ArraySort(mapped, sort)) ELSE Return(mapped)

\* getEvents that ignores its sort argument.
getEvents_Unsorted(items, filter, sort, locale, instant) ==
  LET globbed == getFilteredByGlob(items, locale)
      payload == SelectSeq(globbed, LAMBDA event : Retains(filter, event, instant))
  IN  MapOutcome([i \in 1..Len(payload) |->
                    normalizeEvent(payload[i], locale, instant)])

getEvents(items, filter, sort, locale, instant) ==
  LET globbed == getFilteredByGlob(items, locale)
      payload == SelectSeq(globbed, LAMBDA event : Retains(filter, event, instant))
      mapped == MapOutcome([i \in 1..Len(payload) |->
                              normalizeEvent(payload[i], locale, instant)])
  IN  IF mapped.threw THEN mapped
      ELSE IF sort # Null THEN Return(ArraySort(mapped.value, sort))
      ELSE mapped

\* pastEvents with its filter left out.
pastEvents_Unfiltered(items, instant) ==
  getEvents(items, Null, "sortDesc", "en", instant)

pastEvents(items, instant) == getEvents(items, "past", "sortDesc", "en", instant)

\* currentEvents with its filter left out.
currentEvents_Unfiltered(items, instant) ==
  getEvents(items, Null, "sortAsc", "en", instant)

currentEvents(items, instant) == getEvents(items, "notPast", "sortAsc", "en", instant)

\* The {handle, title} pairs of uniqueSpeakers, in traversal order: events,
\* then sessions, then participants.
rawSpeakersOf(events) ==
  LET perSession(s) ==
        IF "speaker" \in DOMAIN s
          THEN <<[handle |-> s.speaker.handle, title |-> s.speaker.title]>>
          ELSE [i \in 1..Len(s.participants) |->
                  [handle |-> s.participants[i].handle,
                   title  |-> s.participants[i].title]]
      perEvent(e) == Flat([i \in 1..Len(e.sessions) |-> perSession(e.sessions[i])])
  IN  Flat([i \in 1..Len(events) |-> perEvent(events[i])])

\* uniqueSpeakers that keeps the last occurrence of a handle.
uniqueSpeakers_KeepLast(events) ==
  LET rawSpeakers == rawSpeakersOf(events)
      isLast(i) ==
        \A j \in (i + 1)..Len(rawSpeakers) : rawSpeakers[j].handle # rawSpeakers[i].handle
      RECURSIVE filter(_)
      filter(i) == IF i > Len(rawSpeakers) THEN <<>>
                   ELSE (IF isLast(i) THEN <<rawSpeakers[i]>> ELSE <<>>) \o filter(i + 1)
  IN  ArraySort(filter(1), "byTitle")

\* findIndex is 1-based here and 0 when no element passes the test; filter
\* keeps, in order, the elements whose index the test accepts.
uniqueSpeakers(events) ==
  LET rawSpeakers == rawSpeakersOf(events)
      findIndex(handle) ==
        IF \E n \in 1..Len(rawSpeakers) : handle = rawSpeakers[n].handle
          THEN CHOOSE n \in 1..Len(rawSpeakers) :
                 /\ handle = rawSpeakers[n].handle
                 /\ \A m \in 1..(n - 1) : handle # rawSpeakers[m].handle
          ELSE 0
      RECURSIVE filter(_)
      filter(i) == IF i > Len(rawSpeakers) THEN <<>>
                   ELSE (IF findIndex(rawSpeakers[i].handle) = i
                           THEN <<rawSpeakers[i]>> ELSE <<>>) \o filter(i + 1)
  IN  ArraySort(filter(1), "byTitle")

uniqueTopics(events) ==
  LET topics == Flat([i \in 1..Len(events) |->
                        Flat([k \in 1..Len(events[i].sessions) |->
                                events[i].sessions[k].topics])])
  IN  ArraySort(SetSpread(topics), "byValue")

\* uniqueLocations that sorts the locations without de-duplicating them.
uniqueLocations_NoDedup(events) ==
  ArraySort([i \in 1..Len(events) |-> events[i].location], "byValue")

uniqueLocations(events) ==
  LET locations == [i \in 1..Len(events) |-> events[i].location]
  IN  ArraySort(SetSpread(locations), "byValue")

eventTags(items, instant) ==
  LET events == getEvents(items, Null, Null, "en", instant)
  IN  IF events.threw THEN events
      ELSE Return([locations |-> uniqueLocations(events.value),
                   speakers  |-> uniqueSpeakers(events.value),
                   topics    |-> uniqueTopics(events.value)])

----------------------------------------------------------------------------
(* Content: raw sessions and raw events (the items of the collection).     *)

\* A raw session of type 'speaker': it names one speaker.
SpeakerSession(title, speaker, topics) ==
  [title |-> title, description |-> "About the web", type |-> "speaker",
   topics |-> topics, slidesUrl |-> Null, videoUrl |-> "https://video",
   speaker |-> speaker]

\* A raw session of any other type: it lists its participants.
PanelSession(type, participants, topics) ==
  [title |-> "Panel", description |-> "A discussion", type |-> type,
   topics |-> topics, slidesUrl |-> "https://slides", videoUrl |-> Null,
   participants |-> participants]

\* A content item without its identifier: the locale segment of its path and
\* the front matter the pipeline reads.
Shape(locale, date, location, image, sessions) ==
  [locale |-> locale, date |-> date, location |-> location, image |-> image,
   sessions |-> sessions]

\* The collection holding the given items in this order; the identifier of an
\* event is the key of its content item, distinct from every other's.
Collection(shapes) ==
  [i \in 1..Len(shapes) |->
     [locale |-> shapes[i].locale,
      data   |-> [id          |-> i,
                  title       |-> "Event",
                  externalUrl |-> Null,
                  summary     |-> "Summary",
                  location    |-> shapes[i].location,
                  date        |-> shapes[i].date,
                  image       |-> shapes[i].image,
                  sessions    |-> shapes[i].sessions]]]

\* Sequences over S of length at most n.
BSeq(S, n) == UNION {[1..k -> S] : k \in 0..n}

\* Events of the default locale that differ in date and in whether their one
\* session names a known author.
DatedShapes ==
  {Shape("en", d, "Berlin", Null, <<SpeakerSession("Talk", h, <<"web", "css">>)>>) :
     d \in 1..MaxDate, h \in {"alice", "ghost"}}

\* Events that differ in the sessions they hold.
SessionShapes ==
  {Shape("en", 1, "Tokyo", "image/cover.png", ss) :
     ss \in {<<PanelSession("panel", <<"bob", "alice">>, <<"css">>),
               SpeakerSession("Talk", "bob", <<"css">>)>>,
             <<PanelSession("panel", <<"bob">>, <<"web">>)>>,
             <<PanelSession("panel", <<"alice", "ghost">>, <<>>)>>,
             <<>>}}

\* Events of another locale.
OtherLocaleShapes ==
  {Shape("es", 1, "Tokyo", Null, <<SpeakerSession("Charla", h, <<"web">>)>>) :
     h \in {"bob", "ghost"}}

SiteShapes == DatedShapes \cup SessionShapes \cup OtherLocaleShapes

----------------------------------------------------------------------------
(* The state machine of the exported entry points.                         *)

NotCalled == [called |-> FALSE, at |-> 0, threw |-> FALSE, error |-> Null, value |-> Null]

Called(r, instant) ==
  [called |-> TRUE, at |-> instant, threw |-> r.threw, error |-> r.error,
   value |-> r.value]

Init ==
  /\ collections \in {Collection(shapes) : shapes \in BSeq(SiteShapes, MaxEvents)}
  /\ now = 1
  /\ pastOut = NotCalled
  /\ curOut = NotCalled
  /\ tagsOut = NotCalled
  /\ getOut = NotCalled
  /\ speakersIn = <<>>
  /\ speakersOut = NotCalled

\* Time passes between two calls.
Tick ==
  /\ now < MaxDate
  /\ now' = now + 1
  /\ UNCHANGED <<collections, pastOut, curOut, tagsOut, getOut, speakersIn, speakersOut>>

PastEvents ==
  /\ pastOut' = Called(pastEvents(collections, now), now)
  /\ UNCHANGED <<collections, now, curOut, tagsOut, getOut, speakersIn, speakersOut>>

CurrentEvents ==
  /\ curOut' = Called(currentEvents(collections, now), now)
  /\ UNCHANGED <<collections, now, pastOut, tagsOut, getOut, speakersIn, speakersOut>>

\* The facets do not depend on the evaluation instant: the call is recorded
\* without it.
EventTags ==
  /\ tagsOut' = Called(eventTags(collections, now), 0)
  /\ UNCHANGED <<collections, now, pastOut, curOut, getOut, speakersIn, speakersOut>>

Next == Tick \/ PastEvents \/ CurrentEvents \/ EventTags

Spec == Init /\ [][Next]_vars

----------------------------------------------------------------------------
(* getEvents called directly, with any locale, filter and sort.            *)

\* Events that differ in locale, in date and in the sessions they hold:
\* panels of no, one and two participants, of type 'panel' or of no type, and
\* a panel naming an author the directory does not hold.
QueryShapes ==
  {Shape(ld[1], ld[2], "Tokyo", "image/cover.png", ss) :
     ld \in {<<"en", 1>>, <<"en", MaxDate>>, <<"es", 1>>},
     ss \in {<<PanelSession("panel", <<>>, <<"css">>),
               SpeakerSession("Talk", "alice", <<"web">>)>>,
             <<PanelSession(Null, <<"bob">>, <<"web">>),
               PanelSession("panel", <<"bob", "alice">>, <<"css">>)>>,
             <<PanelSession("panel", <<"alice", "ghost">>, <<>>)>>}}

Filters == {Null, "past", "notPast"}
Sorts == {Null, "sortAsc", "sortDesc"}

InitGetEvents ==
  /\ collections \in {Collection(shapes) : shapes \in BSeq(QueryShapes, MaxEvents)}
  /\ now \in 1..MaxDate
  /\ pastOut = NotCalled
  /\ curOut = NotCalled
  /\ tagsOut = NotCalled
  /\ getOut = NotCalled
  /\ speakersIn = <<>>
  /\ speakersOut = NotCalled

GetEvents(filter, sort, locale) ==
  /\ LET r == getEvents(collections, filter, sort, locale, now)
     IN  getOut' = [called |-> TRUE, at |-> now,
                    filter |-> filter, sort |-> sort, locale |-> locale,
                    threw  |-> r.threw, error |-> r.error, value |-> r.value]
  /\ UNCHANGED <<collections, now, pastOut, curOut, tagsOut, speakersIn, speakersOut>>

NextGetEvents ==
  \E filter \in Filters, sort \in Sorts, locale \in Locales :
    GetEvents(filter, sort, locale)

SpecGetEvents == InitGetEvents /\ [][NextGetEvents]_vars

----------------------------------------------------------------------------
(* uniqueSpeakers applied to any list of normalized events.                *)

\* The {handle, title} pairs resolved authors may carry.
SpeakerPairs == [handle : {"alice", "bob"}, title : {"Alice", "Bob"}]

\* Normalized events whose speakers are, in traversal order, the pairs of ps:
\* the first k as the speakers of the speaker sessions of a first event, the
\* rest as the participants of the one panel of a second event.
EventsOfSpeakers(ps, k) ==
  <<[sessions |-> [i \in 1..k |-> [speaker |-> ps[i]]]],
    [sessions |-> <<[participants |-> SubSeq(ps, k + 1, Len(ps))]>>]>>

InitUniqueSpeakers ==
  /\ speakersIn \in UNION {{EventsOfSpeakers(ps, k) : k \in 0..Len(ps)} :
                              ps \in BSeq(SpeakerPairs, MaxSpeakers)}
  /\ speakersOut = NotCalled
  /\ collections = <<>>
  /\ now = 1
  /\ pastOut = NotCalled
  /\ curOut = NotCalled
  /\ tagsOut = NotCalled
  /\ getOut = NotCalled

UniqueSpeakers ==
  /\ speakersOut' = Called(Return(uniqueSpeakers(speakersIn)), 0)
  /\ UNCHANGED <<collections, now, pastOut, curOut, tagsOut, getOut, speakersIn>>

NextUniqueSpeakers == UniqueSpeakers

SpecUniqueSpeakers == InitUniqueSpeakers /\ [][NextUniqueSpeakers]_vars

----------------------------------------------------------------------------
(* Vocabulary of the properties.                                           *)

Range(s) == {s[i] : i \in 1..Len(s)}

Returned(out) == out.called /\ ~out.threw

\* The raw events of the default locale, the one the entry points read.
SiteEvents == getFilteredByGlob(collections, "en")

\* The handles a raw session references.
HandlesOf(session) ==
  IF session.type = "speaker" THEN {session.speaker}
  ELSE Range(session.participants)

\* A raw event one of whose sessions references a handle that the author
\* directory does not hold.
HasUnknownAuthor(event) ==
  \E k \in 1..Len(event.data.sessions) :
    \E h \in HandlesOf(event.data.sessions[k]) : h \notin DOMAIN authorsData

\* The raw sessions of all events of the default locale.
SiteSessions == UNION {Range(SiteEvents[i].data.sessions) : i \in 1..Len(SiteEvents)}

IdsOf(events) == {events[i].id : i \in 1..Len(events)}

NoRepeats(s) == \A i, j \in 1..Len(s) : s[i] = s[j] => i = j

\* Strings in strictly ascending localeCompare order.
Ascending(s) == \A i \in 1..(Len(s) - 1) : localeCompare(s[i], s[i + 1]) < 0

----------------------------------------------------------------------------
(* Properties of the exported entry points, checked under Spec.            *)

\* C1: when pastEvents and currentEvents both return, for the same
\* collection at the same evaluation instant, the identifiers they return are
\* disjoint and together are exactly the identifiers of the locale's events.
C1_PastAndCurrentPartition ==
  (Returned(pastOut) /\ Returned(curOut) /\ pastOut.at = curOut.at) =>
    /\ IdsOf(pastOut.value) \cap IdsOf(curOut.value) = {}
    /\ IdsOf(pastOut.value) \cup IdsOf(curOut.value)
         = {SiteEvents[i].data.id : i \in 1..Len(SiteEvents)}
    /\ Len(pastOut.value) + Len(curOut.value) = Len(SiteEvents)

\* Both views were computed at one instant and neither is empty.
C1_Witness ==
  /\ Returned(pastOut) /\ Returned(curOut) /\ pastOut.at = curOut.at
  /\ pastOut.value # <<>>
  /\ curOut.value # <<>>

C3_AnyBadRecordFailsEveryEntryPoint ==
  (\E i \in 1..Len(SiteEvents) : HasUnknownAuthor(SiteEvents[i])) =>
    /\ pastOut.called => pastOut.threw
    /\ curOut.called => curOut.threw
    /\ tagsOut.called => tagsOut.threw

\* C3 (amended): an entry point raises, and returns no list, exactly when a
\* raw event of the locale that passes its own filter has an unknown author:
\* a past one for pastEvents, a not-past one for currentEvents, any one for
\* eventTags.
C3_BadRetainedRecordFailsTheCall ==
  /\ pastOut.called =>
       /\ pastOut.threw <=>
            \E i \in 1..Len(SiteEvents) :
              /\ isPastEvent(SiteEvents[i], pastOut.at)
              /\ HasUnknownAuthor(SiteEvents[i])
       /\ pastOut.threw => pastOut.value = Null
  /\ curOut.called =>
       /\ curOut.threw <=>
            \E i \in 1..Len(SiteEvents) :
              /\ ~isPastEvent(SiteEvents[i], curOut.at)
              /\ HasUnknownAuthor(SiteEvents[i])
       /\ curOut.threw => curOut.value = Null
  /\ tagsOut.called =>
       /\ tagsOut.threw <=>
            \E i \in 1..Len(SiteEvents) : HasUnknownAuthor(SiteEvents[i])
       /\ tagsOut.threw => tagsOut.value = Null

\* A not-past event with an unknown author sits beside a sound past event:
\* currentEvents and eventTags raised, pastEvents returned the sound event.
C3_Witness ==
  /\ curOut.called /\ curOut.threw
  /\ tagsOut.called /\ tagsOut.threw
  /\ Returned(pastOut) /\ pastOut.at = curOut.at
  /\ Len(pastOut.value) = 1

\* C5: when eventTags returns, each facet holds every distinct value of all
\* the locale's events exactly once: the locations, the topics of all
\* sessions, one speaker entry per referenced handle; locations and topics
\* are in ascending order, speakers in ascending order of title.
C5_FacetsDistinctAndSorted ==
  Returned(tagsOut) =>
    LET f == tagsOut.value
    IN  /\ Range(f.locations) = {SiteEvents[i].data.location : i \in 1..Len(SiteEvents)}
        /\ NoRepeats(f.locations)
        /\ Ascending(f.locations)
        /\ Range(f.topics) = UNION {Range(s.topics) : s \in SiteSessions}
        /\ NoRepeats(f.topics)
        /\ Ascending(f.topics)
        /\ {f.speakers[i].handle : i \in 1..Len(f.speakers)} =
             UNION {HandlesOf(s) : s \in SiteSessions}
        /\ \A i, j \in 1..Len(f.speakers) :
             f.speakers[i].handle = f.speakers[j].handle => i = j
        /\ \A i \in 1..(Len(f.speakers) - 1) :
             localeCompare(f.speakers[i].title, f.speakers[i + 1].title) <= 0

\* eventTags returned for a past event in Tokyo followed by a not-past event
\* in Berlin, whose sessions repeat two handles and a topic: each facet holds
\* two values, in another order than the source's.
C5_Witness ==
  /\ Returned(tagsOut)
  /\ Len(SiteEvents) = 2
  /\ isPastEvent(SiteEvents[1], now) /\ ~isPastEvent(SiteEvents[2], now)
  /\ Len(rawSpeakersOf(getEvents(collections, Null, Null, "en", now).value)) = 4
  /\ tagsOut.value.locations = <<"Berlin", "Tokyo">>
  /\ tagsOut.value.topics = <<"css", "web">>
  /\ Len(tagsOut.value.speakers) = 2
  /\ tagsOut.value.speakers[1].handle = "alice"
  /\ tagsOut.value.speakers[2].handle = "bob"

\* C10: every event pastEvents returns carries isPastEvent = TRUE and every
\* event currentEvents returns carries isPastEvent = FALSE.
C10_FlagAgreesWithView ==
  /\ Returned(pastOut) =>
       \A i \in 1..Len(pastOut.value) : pastOut.value[i].isPastEvent = TRUE
  /\ Returned(curOut) =>
       \A i \in 1..Len(curOut.value) : curOut.value[i].isPastEvent = FALSE

\* Each view returned an event.
C10_Witness ==
  /\ Returned(pastOut) /\ pastOut.value # <<>>
  /\ Returned(curOut) /\ curOut.value # <<>>
  /\ pastOut.value[1].id # curOut.value[1].id

----------------------------------------------------------------------------
(* Properties of getEvents, checked under SpecGetEvents.                   *)

\* The raw events a getEvents call retains: those of its locale that pass its
\* filter at the instant of the call.
RetainedBy(out) ==
  SelectSeq(getFilteredByGlob(collections, out.locale),
            LAMBDA event : Retains(out.filter, event, out.at))

\* The raw event a normalized event was made from.
SourceOf(v) == collections[v.id].data

\* Author a is the resolution of handle h: the directory's entry for h,
\* carrying h.
ResolvedFrom(a, h) ==
  /\ h \in DOMAIN authorsData
  /\ a.handle = h
  /\ a.twitter = authorsData[h].twitter
  /\ a.linkedin = authorsData[h].linkedin

\* C4: a getEvents call throws, with no output, when an event it retains has
\* a session referencing an unknown handle; when it returns, every session of
\* every returned event has its speaker, or each of its participants,
\* resolved to the directory entry of the handle the raw session references.
C4_AllOrNothing ==
  getOut.called =>
    /\ (\E i \in 1..Len(RetainedBy(getOut)) : HasUnknownAuthor(RetainedBy(getOut)[i]))
         => (getOut.threw /\ getOut.value = Null)
    /\ ~getOut.threw =>
         /\ Len(getOut.value) = Len(RetainedBy(getOut))
         /\ \A i \in 1..Len(getOut.value) :
              LET v == getOut.value[i]
                  raw == SourceOf(v).sessions
              IN  /\ Len(v.sessions) = Len(raw)
                  /\ \A k \in 1..Len(raw) :
                       IF raw[k].type = "speaker"
                         THEN ResolvedFrom(v.sessions[k].speaker, raw[k].speaker)
                         ELSE /\ Len(v.sessions[k].participants) = Len(raw[k].participants)
                              /\ \A j \in 1..Len(raw[k].participants) :
                                   ResolvedFrom(v.sessions[k].participants[j],
                                                raw[k].participants[j])

\* A call retained a sound event followed by one with an unknown author, and
\* threw.
C4_Witness ==
  /\ getOut.called /\ getOut.threw
  /\ Len(RetainedBy(getOut)) = 2
  /\ ~HasUnknownAuthor(RetainedBy(getOut)[1])
  /\ HasUnknownAuthor(RetainedBy(getOut)[2])

\* C7: in every returned event, a session of type 'speaker' keeps its raw
\* title, a session of another type with exactly one participant has that
\* participant's resolved title, and a session of another type with any other
\* number of participants (none, two or more) has the fixed
\* multiple-participants label.
C7_PanelTitleRule ==
  (getOut.called /\ ~getOut.threw) =>
    \A i \in 1..Len(getOut.value) :
      LET v == getOut.value[i]
          raw == SourceOf(v).sessions
      IN  \A k \in 1..Len(v.sessions) :
            IF raw[k].type = "speaker"
              THEN v.sessions[k].title = raw[k].title
            ELSE IF Len(raw[k].participants) = 1
              THEN v.sessions[k].title = v.sessions[k].participants[1].title
            ELSE v.sessions[k].title = i18nData.events.multiple_participants[defaultLocale]

\* A call returned panels of no, one and two participants and a speaker
\* session.
C7_Witness ==
  /\ getOut.called /\ ~getOut.threw
  /\ \A n \in 0..2 :
       \E i \in 1..Len(getOut.value) :
         \E k \in 1..Len(getOut.value[i].sessions) :
           /\ "participants" \in DOMAIN getOut.value[i].sessions[k]
           /\ Len(getOut.value[i].sessions[k].participants) = n
  /\ \E i \in 1..Len(getOut.value) :
       \E k \in 1..Len(getOut.value[i].sessions) :
         "speaker" \in DOMAIN getOut.value[i].sessions[k]

\* C8: every returned event has as many sessions as its raw event, its i-th
\* session is made from the i-th raw session, and a panel's participants are
\* the raw participant identifiers in number and order.
C8_SessionsPreserved ==
  (getOut.called /\ ~getOut.threw) =>
    \A i \in 1..Len(getOut.value) :
      LET v == getOut.value[i]
          raw == SourceOf(v).sessions
      IN  /\ Len(v.sessions) = Len(raw)
          /\ \A k \in 1..Len(raw) :
               /\ v.sessions[k].type = raw[k].type
               /\ v.sessions[k].description = raw[k].description
               /\ v.sessions[k].topics = raw[k].topics
               /\ IF raw[k].type = "speaker"
                    THEN v.sessions[k].speaker.handle = raw[k].speaker
                    ELSE [j \in 1..Len(v.sessions[k].participants) |->
                            v.sessions[k].participants[j].handle]
                           = raw[k].participants

\* A sorted call returned two events, the second of two different sessions,
\* one of them a panel of two participants.
C8_Witness ==
  /\ getOut.called /\ ~getOut.threw /\ getOut.sort # Null
  /\ Len(getOut.value) = 2
  /\ getOut.value[1].id > getOut.value[2].id
  /\ Len(getOut.value[2].sessions) = 2
  /\ "participants" \in DOMAIN getOut.value[2].sessions[2]
  /\ Len(getOut.value[2].sessions[2].participants) = 2

\* C9: every localized string of a session normalized under locale L is the
\* localization lookup for L: the titles of the resolved authors, and the
\* multiple-participants label of a panel whose participant count is not one.
C9_LabelsInCallLocale ==
  (getOut.called /\ ~getOut.threw) =>
    \A i \in 1..Len(getOut.value) :
      \A k \in 1..Len(getOut.value[i].sessions) :
        LET s == getOut.value[i].sessions[k]
        IN  IF "speaker" \in DOMAIN s
              THEN s.speaker.title = i18n(AuthorTitleKey(s.speaker.handle), getOut.locale)
              ELSE /\ \A j \in 1..Len(s.participants) :
                        s.participants[j].title =
                          i18n(AuthorTitleKey(s.participants[j].handle), getOut.locale)
                   /\ Len(s.participants) # 1 =>
                        s.title = i18n(MultipleParticipantsKey, getOut.locale)

----------------------------------------------------------------------------
(* Property of uniqueSpeakers, checked under SpecUniqueSpeakers.           *)

\* C6: the speakers facet holds one entry per handle, and that entry carries
\* the title of the handle's first occurrence in traversal order, whatever
\* the titles of its later occurrences.
C6_FirstOccurrenceTitle ==
  speakersOut.called =>
    LET raw == rawSpeakersOf(speakersIn)
        out == speakersOut.value
    IN  /\ {out[i].handle : i \in 1..Len(out)} = {raw[i].handle : i \in 1..Len(raw)}
        /\ \A i \in 1..Len(out) :
             \E n \in 1..Len(raw) :
               /\ raw[n].handle = out[i].handle
               /\ \A m \in 1..(n - 1) : raw[m].handle # out[i].handle
               /\ out[i].title = raw[n].title

\* A handle occurred as a speaker and later as a panel participant under
\* another title, and the facet was computed.
C6_Witness ==
  /\ speakersOut.called
  /\ Len(speakersIn[1].sessions) = 1
  /\ Len(speakersIn[2].sessions[1].participants) = 2
  /\ speakersIn[1].sessions[1].speaker.handle
       = speakersIn[2].sessions[1].participants[2].handle
  /\ speakersIn[1].sessions[1].speaker.title
       # speakersIn[2].sessions[1].participants[2].title
  /\ Len(speakersOut.value) = 2

====
